---- MODULE Spec2Model ----
(***************************************************************************)
(* A model of SolidDataExtractor.py (Python 2): the SolidRun constructor   *)
(* that walks a SOLiD run directory, the SolidSample / SolidLibrary /      *)
(* SolidProject entity graph, the run-definition and barcode-statistics    *)
(* tables, and the module's name functions.                                *)
(*                                                                         *)
(* A Python string is a sequence of one-character strings; None of an      *)
(* object-valued field is the empty tuple and a present value v is <<v>>.  *)
(***************************************************************************)
EXTENDS Integers, Sequences, FiniteSets, TLC

VARIABLES
    sample,     \* SpecSample: one SolidSample (name, libraries, projects)
    ret,        \* SpecSample: what the last addLibrary call returned or raised
    ncalls,     \* SpecSample: number of addLibrary calls made so far
    fs,         \* Spec: the run directory on disk, as the constructor reads it
    pc,         \* Spec: where SolidRun.__init__ stands
    run,        \* Spec: the SolidRun object under construction
    loc,        \* Spec: the local variables of SolidRun.__init__
    exc,        \* Spec: the exception that escaped the constructor, "" if none
    warnings,   \* Spec: the WARNING lines printed so far, each with its row
    fetched,    \* SpecFetch: the last fetchLibraries call and what it returned
    tfile,      \* SpecTable: the file a table object is constructed from
    tobject,    \* SpecTable: the table object, <<>> before its construction
    tret        \* SpecTable: what the last getDataItem call returned or raised

sampleVars == <<sample, ret, ncalls>>
runVars == <<fs, pc, run, loc, exc, warnings, fetched>>
tableVars == <<tfile, tobject, tret>>
vars == <<sample, ret, ncalls, fs, pc, run, loc, exc, warnings, fetched,
          tfile, tobject, tret>>

----------------------------------------------------------------------------
(* Bounds of the model *)

\* number of addLibrary calls made on the sample
MaxCalls == 3

----------------------------------------------------------------------------
(* Characters and strings *)

Digits == {"0", "1"}
Letters == {"N", "P", "S", "T", "e", "n", "o"}

\* the characters of names in the order of their character codes
CharOrder == <<"0", "1", "N", "P", "S", "T", "e", "n", "o">>

Ord(c) == CHOOSE i \in 1..Len(CharOrder) : CharOrder[i] = c

\* the library names drawn as inputs: with and without trailing digits, with
\* leading zeroes, all zeroes, one name a prefix of another, equal sort keys
\* and three different initials
LibraryNames ==
    { <<"P">>, <<"0">>, <<"1">>, <<"0", "1">>, <<"1", "P">>,
      <<"P", "0">>, <<"P", "1">>, <<"P", "0", "0">>, <<"P", "0", "1">>,
      <<"P", "1", "0">>, <<"P", "1", "1">>, <<"P", "P", "1">> }

Min(a, b) == IF a < b THEN a ELSE b

\* s < t for Python strings: by the first differing character, a proper
\* prefix being smaller
RECURSIVE StrLess(_, _)
StrLess(s, t) ==
    IF t = <<>> THEN FALSE
    ELSE IF s = <<>> THEN TRUE
    ELSE IF Head(s) # Head(t) THEN Ord(Head(s)) < Ord(Head(t))
    ELSE StrLess(Tail(s), Tail(t))

\* word.startswith(prefix)
StartsWith(word, prefix) ==
    /\ Len(prefix) <= Len(word)
    /\ SubSeq(word, 1, Len(prefix)) = prefix

\* s.lstrip('0')
RECURSIVE LStripZero(_)
LStripZero(s) ==
    IF s # <<>> /\ Head(s) = "0" THEN LStripZero(Tail(s)) ELSE s

DigitValue(c) == IF c = "0" THEN 0 ELSE 1

\* int(s) of a non-empty string of decimal digits
RECURSIVE IntOfDigits(_)
IntOfDigits(s) ==
    IF s = <<>> THEN 0
    ELSE 10 * IntOfDigits(SubSeq(s, 1, Len(s) - 1)) + DigitValue(s[Len(s)])

\* the words of the formats, each written as one character of a string:
\* a text that starts with sampleName starts with the character "sampleName"
\* and a path that holds _F3_ holds the character "_F3_"
Tab == "\t"
Quote == "\""

\* s.split(sep): the pieces of s between the separators, empty ones kept
RECURSIVE Split(_, _)
Split(s, sep) ==
    LET at == {i \in 1..Len(s) : s[i] = sep} IN
    IF at = {} THEN <<s>>
    ELSE LET k == CHOOSE i \in at : \A j \in at : i <= j
         IN  <<SubSeq(s, 1, k - 1)>> \o Split(SubSeq(s, k + 1, Len(s)), sep)

\* s.strip(chars): leading and trailing characters of the set removed
RECURSIVE LStrip(_, _)
LStrip(s, chars) ==
    IF s # <<>> /\ Head(s) \in chars THEN LStrip(Tail(s), chars) ELSE s

RECURSIVE RStrip(_, _)
RStrip(s, chars) ==
    IF s # <<>> /\ s[Len(s)] \in chars
    THEN RStrip(SubSeq(s, 1, Len(s) - 1), chars)
    ELSE s

Strip(s, chars) == RStrip(LStrip(s, chars), chars)

\* the whitespace line.strip() removes (lines are held without their newline)
Whitespace == {Tab}

\* seq.index(x): the first position of x (0-based), -1 standing for ValueError
IndexOf(seq, x) ==
    LET at == {i \in 1..Len(seq) : seq[i] = x} IN
    IF at = {} THEN -1
    ELSE (CHOOSE i \in at : \A j \in at : i <= j) - 1

\* seq[i] of a Python list: negative i counts from the end, anything else
\* outside the list raises IndexError
InRange(seq, i) == -Len(seq) <= i /\ i < Len(seq)
At(seq, i) == IF i >= 0 THEN seq[i + 1] ELSE seq[Len(seq) + i + 1]

----------------------------------------------------------------------------
(* Module functions *)

\* the leading alphabetic characters of the name
RECURSIVE extract_initials(_)
extract_initials(library) ==
    IF library # <<>> /\ Head(library) \in Letters
    THEN <<Head(library)>> \o extract_initials(Tail(library))
    ELSE <<>>

\* the name with its trailing digits removed
RECURSIVE extract_prefix(_)
extract_prefix(library) ==
    IF library # <<>> /\ library[Len(library)] \in Digits
    THEN extract_prefix(SubSeq(library, 1, Len(library) - 1))
    ELSE library

\* the trailing digits of the name, as a string
RECURSIVE extract_index(_)
extract_index(library) ==
    IF library # <<>> /\ library[Len(library)] \in Digits
    THEN extract_index(SubSeq(library, 1, Len(library) - 1))
             \o <<library[Len(library)]>>
    ELSE <<>>

\* match(pattern, word)
match(pattern, word) ==
    IF pattern = <<>> \/ pattern = <<"*">> THEN TRUE
    ELSE IF pattern[Len(pattern)] = "*"
         THEN StartsWith(word, SubSeq(pattern, 1, Len(pattern) - 1))
         ELSE word = pattern

----------------------------------------------------------------------------
(* SolidLibrary *)

\* the index of a library whose name has no trailing digits (Python's None,
\* which Python 2 orders before every integer)
NoIndex == -1

NoPath == <<>>

\* int(''): what the constructor raises when the digits are all zeroes
IndexRaises(index_as_string) ==
    index_as_string # <<>> /\ LStripZero(index_as_string) = <<>>

\* self.index as the constructor sets it (when it does not raise)
LibraryIndex(index_as_string) ==
    IF index_as_string = <<>> THEN NoIndex
    ELSE IntOfDigits(LStripZero(index_as_string))

\* SolidLibrary(name): the exception raised ("" when none) and the object
SolidLibrary(name) ==
    LET index_as_string == extract_index(name) IN
    IF IndexRaises(index_as_string)
    THEN [exc |-> "ValueError", obj |-> <<>>]
    ELSE [exc |-> "",
          obj |-> <<[name |-> name,
                     initials |-> extract_initials(name),
                     prefix |-> extract_prefix(name),
                     index_as_string |-> index_as_string,
                     index |-> LibraryIndex(index_as_string),
                     is_barcoded |-> FALSE,
                     csfasta |-> NoPath,
                     qual |-> NoPath]>>]

----------------------------------------------------------------------------
(* SolidProject *)

SolidProject(name) == [name |-> name, libraries |-> <<>>]

\* project.addLibrary(library): members are held by reference, here by the
\* library's name, which is unique within the sample
ProjectAddLibrary(project, library) ==
    [project EXCEPT !.libraries = Append(@, library.name)]

\* one pass of the inner loop of getLibraryNamePattern: the pattern after
\* comparing it with one more library name
PatternStep(pattern, name) ==
    LET n == Min(Len(pattern), Len(name))
        diff == {i \in 1..n : pattern[i] # name[i]}
    IN  IF diff = {} THEN pattern
        ELSE LET d == CHOOSE i \in diff : \A j \in diff : i <= j
                 new_pattern == SubSeq(pattern, 1, d - 1)
             IN  IF Len(new_pattern) < Len(name)
                 THEN Append(new_pattern, "*")
                 ELSE new_pattern

\* the loop over the members; its first pass, the pattern being None, sets
\* the pattern to the first member's name
RECURSIVE PatternLoop(_, _)
PatternLoop(pattern, names) ==
    IF names = <<>> THEN pattern
    ELSE PatternLoop(PatternStep(pattern, Head(names)), Tail(names))

\* project.getLibraryNamePattern() of a non-empty project
getLibraryNamePattern(project) ==
    PatternLoop(Head(project.libraries), Tail(project.libraries))

----------------------------------------------------------------------------
(* SolidSample *)

SolidSample(name) ==
    [name |-> name, libraries |-> <<>>, projects |-> <<>>,
     barcode_stats |-> <<>>]

\* the sort key (l.prefix, l.index) of one library is smaller than another's
KeyLess(a, b) ==
    \/ StrLess(a.prefix, b.prefix)
    \/ a.prefix = b.prefix /\ a.index < b.index

\* insert x after every element whose key is not greater (a stable sort)
RECURSIVE InsertByKey(_, _)
InsertByKey(sorted, x) ==
    IF sorted = <<>> THEN <<x>>
    ELSE IF KeyLess(x, Head(sorted)) THEN <<x>> \o sorted
    ELSE <<Head(sorted)>> \o InsertByKey(Tail(sorted), x)

RECURSIVE SortedFrom(_, _)
SortedFrom(done, rest) ==
    IF rest = <<>> THEN done
    ELSE SortedFrom(InsertByKey(done, Head(rest)), Tail(rest))

\* a library list as addLibrary leaves it, with no sort at all
UnsortedLibraries(libraries) == libraries

\* sorted(self.libraries, key=lambda l: (l.prefix, l.index))
SortedLibraries(libraries) == SortedFrom(<<>>, libraries)

\* sample.getLibrary(library_name): <<library>> or None
getLibrary(s, library_name) ==
    LET found == {i \in 1..Len(s.libraries) :
                      s.libraries[i].name = library_name}
    IN  IF found = {} THEN <<>>
        ELSE <<s.libraries[CHOOSE i \in found : \A j \in found : i <= j]>>

\* sample.getProject(project_name): the position of the project, 0 for None
getProject(s, project_name) ==
    LET found == {i \in 1..Len(s.projects) :
                      s.projects[i].name = project_name}
    IN  IF found = {} THEN 0
        ELSE CHOOSE i \in found : \A j \in found : i <= j

\* sample.addLibrary(library_name): the sample afterwards, the exception
\* that escapes ("" when none) and the library returned
addLibrary(s, library_name) ==
    LET existing == getLibrary(s, library_name)
        made == SolidLibrary(library_name)
    IN  IF existing = <<>> /\ made.exc # ""
        THEN [sample |-> s, exc |-> made.exc, library |-> <<>>]
        ELSE
        LET library == IF existing # <<>> THEN existing[1] ELSE made.obj[1]
            libraries ==
                IF existing # <<>> THEN s.libraries
                ELSE SortedLibraries(Append(s.libraries, library))
            p == getProject(s, library.initials)
            projects ==
                IF p = 0
                THEN Append(s.projects,
                            ProjectAddLibrary(SolidProject(library.initials),
                                              library))
                ELSE [s.projects EXCEPT
                          ![p] = ProjectAddLibrary(@, library)]
        IN  [sample |-> [s EXCEPT !.libraries = libraries,
                                  !.projects = projects],
             exc |-> "",
             library |-> <<library>>]

\* project.getProjectName() of a project of the sample s: getSample() is the
\* parent sample of the first member, which is s itself
getProjectName(s, project) ==
    IF Len(s.libraries) = Len(project.libraries) THEN s.name
    ELSE project.name

----------------------------------------------------------------------------
(* SolidRunInfo *)

\* SolidRunInfo with the flow cell read from any token and written into the id
SolidRunInfoFlowCellAnywhere(run_name) ==
    LET data == Split(run_name, "_") IN
    IF Len(data) < 2
    THEN [exc |-> "IndexError", obj |-> <<>>]
    ELSE
    LET is_fragment_library == \E i \in 1..Len(data) : data[i] = <<"FRAG">>
        is_barcoded_sample == \E i \in 1..Len(data) : data[i] = <<"BC">>
        second == \E i \in 1..Len(data) : data[i] = <<"2">>
    IN  [exc |-> "",
         obj |-> <<[name |-> run_name,
                    instrument |-> data[1],
                    datestamp |-> data[2],
                    is_fragment_library |-> is_fragment_library,
                    is_barcoded_sample |-> is_barcoded_sample,
                    flow_cell |-> IF second THEN 2 ELSE 1,
                    id |-> data[1] \o <<"_">> \o data[2]
                             \o (IF is_fragment_library
                                 THEN <<"_", "FRAG">> ELSE <<>>)
                             \o (IF is_barcoded_sample
                                 THEN <<"_", "BC">> ELSE <<>>)
                             \o (IF second THEN <<"_", "2">> ELSE <<>>),
                    date |-> <<>>]>>]

\* SolidRunInfo(run_name): the exception raised ("" when none) and the object
SolidRunInfo(run_name) ==
    LET data == Split(run_name, "_") IN
    IF Len(data) < 2
    THEN [exc |-> "IndexError", obj |-> <<>>]
    ELSE
    LET instrument == data[1]
        datestamp == data[2]
        is_fragment_library == \E i \in 1..Len(data) : data[i] = <<"FRAG">>
        is_barcoded_sample == \E i \in 1..Len(data) : data[i] = <<"BC">>
    IN  [exc |-> "",
         obj |-> <<[name |-> run_name,
                    instrument |-> instrument,
                    datestamp |-> datestamp,
                    is_fragment_library |-> is_fragment_library,
                    is_barcoded_sample |-> is_barcoded_sample,
                    flow_cell |-> IF data[Len(data)] = <<"2">> THEN 2 ELSE 1,
                    id |-> instrument \o <<"_">> \o datestamp
                             \o (IF is_fragment_library
                                 THEN <<"_", "FRAG">> ELSE <<>>)
                             \o (IF is_barcoded_sample
                                 THEN <<"_", "BC">> ELSE <<>>),
                    date |-> IF Len(datestamp) = 8
                             THEN << <<datestamp[7], datestamp[8], "/",
                                       datestamp[5], datestamp[6], "/",
                                       datestamp[3], datestamp[4]>> >>
                             ELSE <<>>]>>]

----------------------------------------------------------------------------
(* SolidRunDefinition and SolidBarcodeStatistics *)

\* A file is [readable, lines]; open() of an unreadable file raises IOError,
\* which both constructors catch, leaving the table empty.

\* SolidRunDefinition.populate: the table after reading the lines in order
RECURSIVE RunDefinitionPopulate(_, _, _)
RunDefinitionPopulate(table, got_header, lines) ==
    IF lines = <<>> THEN table
    ELSE LET line == Head(lines) IN
         IF line # <<>> /\ line[1] = "sampleName"
         THEN RunDefinitionPopulate(
                  [table EXCEPT !.header_fields =
                       @ \o Split(Strip(line, Whitespace), Tab)],
                  TRUE, Tail(lines))
         ELSE IF got_header
         THEN RunDefinitionPopulate(
                  [table EXCEPT !.data =
                       Append(@, Split(Strip(line, Whitespace), Tab))],
                  got_header, Tail(lines))
         ELSE RunDefinitionPopulate(table, got_header, Tail(lines))

SolidRunDefinition(file) ==
    LET empty == [kind |-> "SolidRunDefinition",
                  header_fields |-> <<>>, data |-> <<>>]
    IN  IF file.readable
        THEN RunDefinitionPopulate(empty, FALSE, file.lines)
        ELSE empty

\* SolidBarcodeStatistics.populate; the header is None (<<>>) until a line
\* starting with ## is read, and <<fields>> afterwards
RECURSIVE BarcodeStatisticsPopulate(_, _, _)
BarcodeStatisticsPopulate(table, got_header, lines) ==
    IF lines = <<>> THEN table
    ELSE LET line == Head(lines) IN
         IF got_header
         THEN BarcodeStatisticsPopulate(
                  [table EXCEPT !.data =
                       Append(@, Split(Strip(line, Whitespace), Tab))],
                  got_header, Tail(lines))
         ELSE IF Len(line) >= 2 /\ line[1] = "#" /\ line[2] = "#"
         THEN BarcodeStatisticsPopulate(
                  [table EXCEPT !.header =
                       <<Split(Strip(Strip(line, Whitespace), {"#"}), Tab)>>],
                  TRUE, Tail(lines))
         ELSE BarcodeStatisticsPopulate(table, got_header, Tail(lines))

SolidBarcodeStatistics(file) ==
    LET empty == [kind |-> "SolidBarcodeStatistics",
                  header |-> <<>>, data |-> <<>>]
    IN  IF file.readable
        THEN BarcodeStatisticsPopulate(empty, FALSE, file.lines)
        ELSE empty

\* table.__nonzero__()
TableNonzero(table) == Len(table.data) # 0

\* run_definition.nSamples() and barcode_stats.nRows()
nSamples(table) == Len(table.data)

\* self.data[i][pos], which raises IndexError outside either list
DataAt(table, pos, i) ==
    IF ~InRange(table.data, i) THEN [exc |-> "IndexError", value |-> <<>>]
    ELSE IF ~InRange(At(table.data, i), pos)
         THEN [exc |-> "IndexError", value |-> <<>>]
         ELSE [exc |-> "", value |-> <<At(At(table.data, i), pos)>>]

\* SolidRunDefinition.getDataItem(field, i): the exception raised ("" when
\* none) and the value returned, <<>> being None
RunDefinitionGetDataItem(table, field, i) ==
    LET pos == IndexOf(table.header_fields, field) IN
    IF pos < 0 THEN [exc |-> "", value |-> <<>>]
    ELSE DataAt(table, pos, i)

\* SolidBarcodeStatistics.getDataItem(field, i): self.header.index of a
\* header that is still None raises AttributeError
BarcodeStatisticsGetDataItem(table, field, i) ==
    IF table.header = <<>>
    THEN [exc |-> "AttributeError", value |-> <<>>]
    ELSE LET pos == IndexOf(table.header[1], field) IN
         IF pos < 0 THEN [exc |-> "", value |-> <<>>]
         ELSE DataAt(table, pos, i)

getDataItem(table, field, i) ==
    IF table.kind = "SolidRunDefinition"
    THEN RunDefinitionGetDataItem(table, field, i)
    ELSE BarcodeStatisticsGetDataItem(table, field, i)

----------------------------------------------------------------------------
(* SpecSample: any sequence of addLibrary calls on one sample *)

NoCall == [call |-> "none", arg |-> <<>>, exc |-> "", library |-> <<>>]

\* the variables of the other specifications, at rest
IdleSample == sample = <<>> /\ ret = <<>> /\ ncalls = 0
IdleRun ==
    /\ fs = <<>> /\ pc = "idle" /\ run = <<>> /\ loc = <<>>
    /\ exc = "" /\ warnings = <<>> /\ fetched = <<>>
IdleTable == tfile = <<>> /\ tobject = <<>> /\ tret = <<>>

InitSample ==
    /\ sample = SolidSample(<<"S">>)
    /\ ret = NoCall
    /\ ncalls = 0
    /\ IdleRun
    /\ IdleTable

AddLibrary ==
    /\ ncalls < MaxCalls
    /\ \E library_name \in LibraryNames :
         LET r == addLibrary(sample, library_name) IN
         /\ sample' = r.sample
         /\ ret' = [call |-> "addLibrary", arg |-> library_name,
                    exc |-> r.exc, library |-> r.library]
    /\ ncalls' = ncalls + 1
    /\ UNCHANGED <<runVars, tableVars>>

NextSample == AddLibrary

SpecSample == InitSample /\ [][NextSample]_vars

----------------------------------------------------------------------------
(* SolidRun.__init__ *)

\* The run directory on disk is
\*   [isdir, run_name, defn, results, stats, libdirs, cands]:
\* whether solid_run_dir is a directory; its last path component; the run
\* definition file (<<>> when there is none, else <<[readable, lines]>>);
\* for the sample directories, whether "results" is no symbolic link
\* ("nolink"), a link to a directory without a "libraries" subdirectory
\* ("nolibraries") or a link to one that has it ("ok"); the BarcodeStatistics
\* file of a libraries directory (<<>> or <<file>>); the library names that
\* have a directory below "libraries"; and the children of such a directory
\* in the order os.listdir returns them, each
\*   [f3name, reject, reports, reads]
\* (whether its own name holds _F3_, whether it has "reject" and "reports"
\* subdirectories, and <<>> or <<the files of its "reads" subdirectory in
\* listing order>>).  A file name is a string whose last character is its
\* extension.

NoRun ==
    [run_dir |-> <<>>, run_name |-> <<>>, run_info |-> <<>>,
     run_definition |-> <<>>, samples |-> <<>>]

NoLocals ==
    [i |-> 0, sample_name |-> <<>>, sample |-> 0, library |-> <<>>,
     this_library_dir |-> <<>>, d |-> 0, csfasta |-> NoPath, qual |-> NoPath,
     got_primary_data |-> FALSE, ambiguity_error |-> FALSE]

\* os.path.splitext(f)[1]
Ext(f) == IF f # <<>> /\ f[Len(f)] \in {".csfasta", ".qual"}
          THEN f[Len(f)] ELSE ""

\* path.rfind('_F3_') >= 0, of the absolute path of a file in a reads
\* directory: run, sample and library names never hold _F3_ here
PathHasF3(path) ==
    \/ \E k \in 1..Len(path.file) : path.file[k] = "_F3_"
    \/ path.f3name

\* the loop over os.listdir(reads): the last file with the extension, or None
LastWithExt(reads, ext) ==
    LET at == {k \in 1..Len(reads) : Ext(reads[k]) = ext} IN
    IF at = {} THEN <<>>
    ELSE <<reads[CHOOSE k \in at : \A j \in at : j <= k]>>

\* the csfasta or qual variable after lines 185-203, for one child directory
\* that has all of reject, reads and reports
SelectedFile(cand, sample_name, library_name, d, ext, is_barcoded) ==
    LET f == LastWithExt(cand.reads[1], ext)
        path == [sample |-> sample_name, library |-> library_name, d |-> d,
                 f3name |-> cand.f3name, file |-> IF f = <<>> THEN <<>> ELSE f[1]]
    IN  IF f = <<>> THEN NoPath
        ELSE IF is_barcoded /\ ~PathHasF3(path) THEN NoPath
        ELSE <<path>>

Qualifies(cand) == cand.reject /\ cand.reads # <<>> /\ cand.reports

\* __nonzero__ without its test of the run definition
RunNonzeroWithoutDefinition(r) ==
    /\ r.run_name # <<>> /\ r.run_name[1] # <<>>
    /\ r.run_info # <<>>

\* run.__nonzero__()
RunNonzero(r) ==
    /\ r.run_name # <<>> /\ r.run_name[1] # <<>>
    /\ r.run_info # <<>>
    /\ r.run_definition # <<>> /\ TableNonzero(r.run_definition[1])

\* lines 229-238 of fetchLibraries: the matching libraries of the samples,
\* sample by sample and in the order of the sample's library list
RECURSIVE MatchingLibraries(_, _, _)
MatchingLibraries(samples, sample_name, library_name) ==
    IF samples = <<>> THEN <<>>
    ELSE (IF match(sample_name, Head(samples).name)
          THEN SelectSeq(Head(samples).libraries,
                         LAMBDA library : match(library_name, library.name))
          ELSE <<>>)
         \o MatchingLibraries(Tail(samples), sample_name, library_name)

\* run.fetchLibraries(sample_name, library_name)
fetchLibraries(r, sample_name, library_name) ==
    MatchingLibraries(r.samples, sample_name, library_name)

Raise(kind) == pc' = "raised" /\ exc' = kind

----------------------------------------------------------------------------
(* The run directories the constructor is run on *)

\* children of a library directory listed at most
MaxCands == 3
\* data rows of a run definition at most
MaxRows == 3

SeqsUpTo(S, n) == UNION {[1..k -> S] : k \in 0..n}

\* every listing order of every subset of the files
Orders(files) ==
    {o \in SeqsUpTo(files, Cardinality(files)) :
         \A a, b \in 1..Len(o) : o[a] = o[b] => a = b}

F3Csfasta == <<"sample", "_F3_", "001", ".csfasta">>
OtherCsfasta == <<"other", "_", "002", ".csfasta">>
F3Qual == <<"sample", "_F3_", "001", ".qual">>
OtherQual == <<"other", "_", "002", ".qual">>

ReadsFiles == {F3Csfasta, OtherCsfasta, F3Qual, OtherQual}

Cand(f3name, reject, reports, reads) ==
    [f3name |-> f3name, reject |-> reject, reports |-> reports,
     reads |-> reads]

\* one child directory, with any files in its reads directory in any order
RichCands ==
    {Cand(f3name, TRUE, TRUE, <<o>>) :
         f3name \in BOOLEAN, o \in Orders(ReadsFiles)}

\* children without one of the three subdirectories, with a pair of files,
\* with a pair named _F3_, and with a sequence file only
SimpleCands ==
    { Cand(FALSE, FALSE, TRUE, << <<OtherCsfasta, OtherQual>> >>),
      Cand(FALSE, TRUE, TRUE, << <<OtherCsfasta, OtherQual>> >>),
      Cand(FALSE, TRUE, TRUE, << <<F3Qual, F3Csfasta>> >>),
      Cand(FALSE, TRUE, TRUE, << <<OtherCsfasta>> >>) }

PlainPair == Cand(FALSE, TRUE, TRUE, << <<OtherCsfasta, OtherQual>> >>)
F3Pair == Cand(FALSE, TRUE, TRUE, << <<F3Qual, F3Csfasta>> >>)

GoodRunName ==
    <<"solid0123", "_", "2", "0", "1", "3", "0", "4", "2", "6",
      "_", "FRAG", "_", "BC">>

\* run names without a datestamp
ShortRunNames == { <<"solid0123">>, <<"solid0123", "FRAG">> }

Datestamp == <<"2", "0", "1", "3", "0", "4", "2", "6">>

\* the tokens run names are made of
RunNameTokens ==
    { <<"solid0123">>, Datestamp, <<"FRAG">>, <<"BC">>, <<"2">> }

\* '_'.join(tokens)
RECURSIVE Join(_)
Join(tokens) ==
    IF Len(tokens) = 1 THEN tokens[1]
    ELSE tokens[1] \o <<"_">> \o Join(Tail(tokens))

\* run names of two tokens and more: any of the tokens in any order
RunNames ==
    {Join(tokens) : tokens \in {ts \in Orders(RunNameTokens) : Len(ts) >= 2}}

Preamble == <<"version", Tab, "userId">>
HeaderLine == <<"sampleName", Tab, "library", Tab, "barcodes">>
HeaderNoBarcodes == <<"sampleName", Tab, "library">>
HeaderNoLibrary == <<"sampleName", Tab, "barcodes">>

\* the end of a data line: no barcodes field, an empty one, a field of two
\* quotes, a quoted barcode and a bare one
BarcodeTails ==
    { <<>>, <<Tab>>, <<Tab, Quote, Quote>>, <<Tab, Quote, "1", Quote>>,
      <<Tab, "1">> }

RowLine(sample_name, library_name, tail) ==
    sample_name \o <<Tab>> \o library_name \o tail

BlankLine == <<>>

P1 == <<"P", "1">>
P11 == <<"P", "1", "1">>
P0 == <<"P", "0">>

File(lines) == [readable |-> TRUE, lines |-> lines]

StatsFile ==
    File(<< <<"#", "#", "Library", Tab, "Count">>,
            <<"P", "1", Tab, "1">>,
            <<"All Beads", Tab, "1">> >>)

Dir(run_name, defn, results, stats, libdirs, cands) ==
    [isdir |-> TRUE, run_name |-> run_name, defn |-> defn,
     results |-> results, stats |-> stats, libdirs |-> libdirs,
     cands |-> cands]

\* no directory, a run name too short, no run definition file, one that
\* cannot be read, one without a header and one without data rows
DegenerateDirs ==
    {[Dir(GoodRunName, <<>>, "nolink", <<>>, {}, <<>>)
          EXCEPT !.isdir = FALSE]}
    \cup {Dir(n, <<File(<<HeaderLine>>)>>, "nolink", <<>>, {}, <<>>) :
              n \in ShortRunNames}
    \cup {Dir(GoodRunName, d, "nolink", <<>>, {}, <<>>) :
              d \in { <<>>,
                      <<[readable |-> FALSE, lines |-> <<>>]>>,
                      <<File(<<Preamble>>)>>,
                      <<File(<<Preamble, HeaderLine>>)>>,
                      <<File(<<HeaderLine, HeaderLine>>)>> }}

\* one data row of every shape under every header, in every kind of sample
\* directory
OneRowDirs ==
    {Dir(GoodRunName, <<File(<<Preamble, h, r>>)>>, res, <<StatsFile>>,
         {P1}, <<PlainPair>>) :
         h \in {HeaderLine, HeaderNoBarcodes, HeaderNoLibrary},
         r \in {RowLine(<<"S">>, l, t) : l \in {P1, P11, P0},
                                         t \in BarcodeTails}
               \cup {BlankLine},
         res \in {"nolink", "nolibraries", "ok"}}

\* several rows over two samples and two libraries, a sample or a library
\* being named by any of the rows
ManyRowDirs ==
    {Dir(GoodRunName, <<File(<<HeaderLine>> \o rows)>>, res, st,
         {P1}, <<F3Pair, PlainPair>>) :
         rows \in SeqsUpTo({RowLine(sn, l, <<>>) :
                                sn \in {<<"S">>, <<"T">>}, l \in {P1, P11}},
                           MaxRows),
         res \in {"nolink", "ok"},
         st \in {<<>>, <<StatsFile>>}}

\* one library, barcoded or not, whose directory has one child with any
\* files in any order, or several simple children; in the second case the
\* library may be named by several rows
LayoutDirs ==
    {Dir(GoodRunName, <<File(<<HeaderLine, RowLine(<<"S">>, P1, t)>>)>>,
         "ok", <<>>, {P1}, <<c>>) :
         t \in {<<>>, <<Tab, "1">>}, c \in RichCands}
    \cup
    {Dir(GoodRunName, <<File(<<HeaderLine>> \o rows)>>,
         "ok", <<>>, {P1}, cs) :
         rows \in SeqsUpTo({RowLine(<<"S">>, P1, t) :
                                t \in {<<>>, <<Tab, "1">>}}, MaxRows)
                      \ {<<>>},
         cs \in SeqsUpTo(SimpleCands, MaxCands)}

\* a directory of every run name, without a run definition file
NamedDirs ==
    {Dir(n, <<>>, "nolink", <<>>, {}, <<>>) : n \in RunNames}

RunDirs ==
    DegenerateDirs \cup OneRowDirs \cup ManyRowDirs \cup LayoutDirs
        \cup NamedDirs

----------------------------------------------------------------------------
(* Spec: SolidRun(solid_run_dir), step by step *)

Init ==
    /\ fs \in RunDirs
    /\ pc = "init"
    /\ run = NoRun
    /\ loc = NoLocals
    /\ exc = ""
    /\ warnings = <<>>
    /\ fetched = <<>>
    /\ IdleSample
    /\ IdleTable

\* lines 58-72: the directory and the run name
Open ==
    /\ pc = "init"
    /\ UNCHANGED <<fs, loc, warnings, sampleVars, tableVars,
                 fetched>>
    /\ IF ~fs.isdir
       THEN pc' = "done" /\ UNCHANGED <<run, exc>>
       ELSE LET info == SolidRunInfo(fs.run_name)
                named == [run EXCEPT
                              !.run_dir = << <<"/", "data", "/">> \o fs.run_name>>,
                              !.run_name = <<fs.run_name>>]
            IN  IF info.exc # ""
                THEN Raise(info.exc) /\ run' = named
                ELSE /\ run' = [named EXCEPT !.run_info = info.obj]
                     /\ pc' = "locate"
                     /\ UNCHANGED exc

\* lines 74-82: the run definition file
Locate ==
    /\ pc = "locate"
    /\ UNCHANGED <<fs, loc, exc, sampleVars, tableVars,
                 fetched>>
    /\ IF fs.defn # <<>>
       THEN /\ run' = [run EXCEPT
                           !.run_definition = <<SolidRunDefinition(fs.defn[1])>>]
            /\ pc' = "row"
            /\ UNCHANGED warnings
       ELSE /\ warnings' = Append(warnings, [row |-> -1, kind |-> "no run definition file"])
            /\ pc' = "done"
            /\ UNCHANGED run

\* where the sample holds the library of that name
LibraryPosition(s, library_name) ==
    CHOOSE k \in 1..Len(s.libraries) : s.libraries[k].name = library_name

SetBarcoded(s, library_name, is_barcoded) ==
    [s EXCEPT !.libraries[LibraryPosition(s, library_name)].is_barcoded =
                  is_barcoded]

\* lines 205-211 without the ambiguity flag, storing whichever pair comes last
StoreLastPrimaryData(library, csfasta, qual, got_primary_data) ==
    [library EXCEPT !.csfasta = csfasta, !.qual = qual]

\* lines 205-211 with the assignment of the quality file left out
StoreSequenceOnly(library, csfasta, qual, got_primary_data) ==
    IF got_primary_data THEN library
    ELSE [library EXCEPT !.csfasta = csfasta]

\* lines 205-211: the library after a child directory gave both files
StorePrimaryData(library, csfasta, qual, got_primary_data) ==
    IF got_primary_data THEN library
    ELSE [library EXCEPT !.csfasta = csfasta, !.qual = qual]

\* lines 85-166, for row loc.i of the run definition: the names, the barcode
\* flag, the results link, the sample, the library and its directory
Row ==
    /\ pc = "row"
    /\ loc.i < nSamples(run.run_definition[1])
    /\ UNCHANGED <<fs, sampleVars, tableVars,
                 fetched>>
    /\ LET defn == run.run_definition[1]
           i == loc.i
           sn == getDataItem(defn, <<"sampleName">>, i)
           ln == getDataItem(defn, <<"library">>, i)
           bc == getDataItem(defn, <<"barcodes">>, i)
           \* try: barcodes = getDataItem(...) except IndexError: barcodes = ''
           barcodes == IF bc.exc = "IndexError" THEN << <<>> >> ELSE bc.value
           \* the truth value of (barcodes != '' and barcodes)
           library_is_barcoded == barcodes # <<>> /\ barcodes[1] # <<>>
       IN
       IF sn.exc # "" THEN Raise(sn.exc) /\ UNCHANGED <<run, loc, warnings>>
       ELSE IF ln.exc # "" THEN Raise(ln.exc) /\ UNCHANGED <<run, loc, warnings>>
       \* os.path.join(self.run_dir, None, 'results')
       ELSE IF sn.value = <<>>
       THEN Raise("AttributeError") /\ UNCHANGED <<run, loc, warnings>>
       ELSE
       LET sample_name == sn.value[1]
           \* str(None) is the name of a library read from a missing column
           library_name == IF ln.value = <<>> THEN <<"N", "o", "n", "e">>
                           ELSE ln.value[1]
           libraries_dir == IF fs.results # "nolink" THEN <<sample_name>>
                            ELSE <<>>
           is_new == \A k \in 1..Len(run.samples) :
                         run.samples[k].name # sample_name
           created == IF is_new
                      THEN Append(run.samples, SolidSample(sample_name))
                      ELSE run.samples
           \* the variable sample is assigned only when a sample is created
           cur == IF is_new THEN Len(created) ELSE loc.sample
           with_stats ==
               IF is_new /\ libraries_dir # <<>> /\ fs.stats # <<>>
               THEN [created EXCEPT ![cur].barcode_stats =
                         <<SolidBarcodeStatistics(fs.stats[1])>>]
               ELSE created
           warned == IF is_new /\ libraries_dir = <<>>
                     THEN Append(warnings,
                                 [row |-> i, kind |-> "no libraries dir"])
                     ELSE warnings
           added == addLibrary(with_stats[cur], library_name)
       IN
       \* os.listdir(libraries_dir) of a directory that does not exist
       IF is_new /\ libraries_dir # <<>> /\ fs.results = "nolibraries"
       THEN /\ Raise("OSError")
            /\ run' = [run EXCEPT !.samples = created]
            /\ UNCHANGED <<loc, warnings>>
       ELSE IF added.exc # ""
       THEN /\ Raise(added.exc)
            /\ run' = [run EXCEPT !.samples = with_stats]
            /\ warnings' = warned
            /\ UNCHANGED loc
       ELSE
       LET library == added.library[1]
           this_library_dir ==
               IF libraries_dir # <<>> /\ fs.results = "ok"
                      /\ library.name \in fs.libdirs
               THEN <<library.name>> ELSE <<>>
       IN  /\ run' = [run EXCEPT !.samples =
                          [with_stats EXCEPT ![cur] =
                               SetBarcoded(added.sample, library.name,
                                           library_is_barcoded)]]
           /\ warnings' = warned
           /\ loc' = [loc EXCEPT !.sample_name = sample_name,
                                 !.sample = cur,
                                 !.library = library.name,
                                 !.this_library_dir = this_library_dir,
                                 !.d = 1,
                                 !.got_primary_data = FALSE,
                                 !.ambiguity_error = FALSE]
           /\ pc' = "scan"
           /\ UNCHANGED exc

\* lines 174-211, for one child d of the library's directory
Scan ==
    /\ pc = "scan"
    /\ loc.this_library_dir # <<>>
    /\ loc.d <= Len(fs.cands)
    /\ UNCHANGED <<fs, pc, exc, warnings, sampleVars, tableVars,
                 fetched>>
    /\ LET cand == fs.cands[loc.d]
           s == run.samples[loc.sample]
           k == LibraryPosition(s, loc.library)
           library == s.libraries[k]
       IN
       IF ~Qualifies(cand)
       THEN loc' = [loc EXCEPT !.d = @ + 1] /\ UNCHANGED run
       ELSE
       LET csfasta == SelectedFile(cand, loc.sample_name, library.name, loc.d,
                                   ".csfasta", library.is_barcoded)
           qual == SelectedFile(cand, loc.sample_name, library.name, loc.d,
                                ".qual", library.is_barcoded)
           both == csfasta # NoPath /\ qual # NoPath
       IN  /\ run' = IF both
                     THEN [run EXCEPT !.samples[loc.sample].libraries[k] =
                               StorePrimaryData(library, csfasta, qual,
                                                loc.got_primary_data)]
                     ELSE run
           /\ loc' = [loc EXCEPT
                          !.d = @ + 1,
                          !.csfasta = csfasta,
                          !.qual = qual,
                          !.got_primary_data = @ \/ both,
                          !.ambiguity_error = @ \/ (both /\ loc.got_primary_data)]

\* lines 214-219: the warnings of the row, and on to the next row
Warn ==
    /\ pc = "scan"
    /\ loc.this_library_dir = <<>> \/ loc.d > Len(fs.cands)
    /\ UNCHANGED <<fs, run, exc, sampleVars, tableVars,
                 fetched>>
    /\ warnings' =
           IF ~loc.got_primary_data
           THEN Append(warnings, [row |-> loc.i,
                                  kind |-> "unable to locate primary data"])
           ELSE IF loc.ambiguity_error
           THEN Append(warnings, [row |-> loc.i,
                                  kind |-> "ambiguous location for primary data"])
           ELSE warnings
    /\ loc' = [loc EXCEPT !.i = @ + 1]
    /\ pc' = "row"

\* the loop over the rows ends and the constructor returns
Finish ==
    /\ pc = "row"
    /\ loc.i >= nSamples(run.run_definition[1])
    /\ pc' = "done"
    /\ UNCHANGED <<fs, run, loc, exc, warnings, sampleVars, tableVars,
                 fetched>>

Next == Open \/ Locate \/ Row \/ Scan \/ Warn \/ Finish

Spec == Init /\ [][Next]_vars

----------------------------------------------------------------------------
(* SpecFetch: a run is constructed and its libraries are then fetched *)

\* the runs fetched from: several rows over two samples and two libraries
FetchDirs == {d \in ManyRowDirs : d.stats = <<>>}

\* the patterns asked for: empty, *, several *, a name, a name and *, a name
\* and several *, and a name no sample or library has
SamplePatterns ==
    { <<>>, <<"*">>, <<"*", "*">>, <<"S">>, <<"S", "*">>, <<"N">> }

LibraryPatterns ==
    { <<>>, <<"*">>, <<"*", "*">>, P1, <<"P", "1", "*">>,
      <<"P", "*", "*">>, P0 }

InitFetch ==
    /\ fs \in FetchDirs
    /\ pc = "init"
    /\ run = NoRun
    /\ loc = NoLocals
    /\ exc = ""
    /\ warnings = <<>>
    /\ fetched = <<>>
    /\ IdleSample
    /\ IdleTable

\* run.fetchLibraries(sample_name, library_name) on the constructed run
Fetch ==
    /\ pc = "done"
    /\ \E sample_name \in SamplePatterns, library_name \in LibraryPatterns :
         fetched' = <<[sample_name |-> sample_name,
                       library_name |-> library_name,
                       matching_libraries |->
                           fetchLibraries(run, sample_name, library_name)]>>
    /\ UNCHANGED <<fs, pc, run, loc, exc, warnings, sampleVars, tableVars>>

NextFetch == Open \/ Locate \/ Row \/ Scan \/ Warn \/ Finish \/ Fetch

SpecFetch == InitFetch /\ [][NextFetch]_vars

----------------------------------------------------------------------------
(* SpecTable: a table object is constructed from a file and then queried *)

\* lines of a table file at most
MaxLines == 3

RunDefinitionLines ==
    { Preamble, HeaderLine, HeaderNoBarcodes, BlankLine,
      RowLine(<<"S">>, P1, <<Tab, Quote, "1", Quote>>),
      RowLine(<<"T">>, P11, <<>>) }

BarcodeStatisticsLines ==
    { <<"#", "#", "Library", Tab, "Count">>,
      <<"P", "1", Tab, "1">>,
      <<"All Beads", Tab, "1">> }

TableFiles ==
    {[kind |-> "SolidRunDefinition", readable |-> TRUE, lines |-> ls] :
         ls \in SeqsUpTo(RunDefinitionLines, MaxLines)}
    \cup
    {[kind |-> "SolidBarcodeStatistics", readable |-> TRUE, lines |-> ls] :
         ls \in SeqsUpTo(BarcodeStatisticsLines, MaxLines)}
    \cup
    {[kind |-> k, readable |-> FALSE, lines |-> <<>>] :
         k \in {"SolidRunDefinition", "SolidBarcodeStatistics"}}

\* the field names asked for, one of them in no header
QueriedFields ==
    { <<"sampleName">>, <<"barcodes">>, <<"Library">>, <<"nosuch">> }

InitTable ==
    /\ tfile \in TableFiles
    /\ tobject = <<>>
    /\ tret = [call |-> "none"]
    /\ IdleSample
    /\ IdleRun

\* SolidRunDefinition(file) or SolidBarcodeStatistics(file)
Construct ==
    /\ tobject = <<>>
    /\ tobject' = IF tfile.kind = "SolidRunDefinition"
                THEN <<SolidRunDefinition(tfile)>>
                ELSE <<SolidBarcodeStatistics(tfile)>>
    /\ UNCHANGED <<tfile, tret, sampleVars, runVars>>

\* table.getDataItem(field, i)
GetDataItem ==
    /\ tobject # <<>>
    /\ \E field \in QueriedFields, i \in (0 - 2)..MaxLines :
         LET r == getDataItem(tobject[1], field, i) IN
         tret' = [call |-> "getDataItem", field |-> field, i |-> i,
                  exc |-> r.exc, value |-> r.value]
    /\ UNCHANGED <<tfile, tobject, sampleVars, runVars>>

NextTable == Construct \/ GetDataItem

SpecTable == InitTable /\ [][NextTable]_vars

----------------------------------------------------------------------------
(* Claims about the sample, its libraries and its projects *)

LibraryListSorted(libraries) ==
    \A i \in 1..(Len(libraries) - 1) :
        ~KeyLess(libraries[i + 1], libraries[i])

LibraryNamesUnique(libraries) ==
    \A i, j \in 1..Len(libraries) :
        libraries[i].name = libraries[j].name => i = j

\* an addLibrary step whose name the sample already holds returns the
\* library held and leaves the library list as it was
ReAddReturnsExisting ==
    \A i \in 1..Len(sample.libraries) :
        (ret'.call = "addLibrary" /\ ncalls' = ncalls + 1
             /\ ret'.arg = sample.libraries[i].name)
        => /\ sample'.libraries = sample.libraries
           /\ ret'.exc = ""
           /\ ret'.library = <<sample.libraries[i]>>

\* C1: after any sequence of addLibrary calls the library list is sorted by
\* (prefix, index) and holds no name twice, and a call with a name already
\* present returns the existing library without changing the list.
C1_LibrariesSortedUnique ==
    /\ [](LibraryListSorted(sample.libraries)
            /\ LibraryNamesUnique(sample.libraries))
    /\ [][ReAddReturnsExisting]_vars

\* C1 witness: P11 was added, then P1 (sorted before it), then P11 again.
C1_Witness ==
    /\ ncalls = 3
    /\ Len(sample.libraries) = 2
    /\ sample.libraries[1].name = <<"P", "1">>
    /\ sample.libraries[2].name = <<"P", "1", "1">>
    /\ sample.projects[1].libraries
           = << <<"P", "1", "1">>, <<"P", "1">>, <<"P", "1", "1">> >>
    /\ ret.arg = <<"P", "1", "1">>
    /\ ret.library = <<sample.libraries[2]>>

\* the index the library's name stands for: None without trailing digits,
\* otherwise the value of the digits (0 when they are all zeroes)
IndexOfName(name) ==
    IF extract_index(name) = <<>> THEN NoIndex
    ELSE IntOfDigits(extract_index(name))

\* C7: for every library name the library is made without an error, its
\* index None when the name has no trailing digits and otherwise the value
\* of the digits with leading zeroes stripped, 0 when they are all zeroes.
C7_IndexOfEveryName ==
    (ret.call = "addLibrary")
    => /\ ret.exc = ""
       /\ ret.library # <<>>
       /\ ret.library[1].index = IndexOfName(ret.arg)

\* the longest common prefix of a non-empty sequence of names
RECURSIVE CommonPrefix(_)
CommonPrefix(names) ==
    IF Len(names) = 1 THEN names[1]
    ELSE LET rest == CommonPrefix(Tail(names))
             k == CHOOSE k \in 0..Min(Len(names[1]), Len(rest)) :
                    /\ SubSeq(names[1], 1, k) = SubSeq(rest, 1, k)
                    /\ \A m \in (k + 1)..Min(Len(names[1]), Len(rest)) :
                         SubSeq(names[1], 1, m) # SubSeq(rest, 1, m)
         IN  SubSeq(rest, 1, k)

\* the common prefix, with a trailing * iff some name is longer than it
PrefixPattern(names) ==
    LET prefix == CommonPrefix(names) IN
    IF \E i \in 1..Len(names) : Len(names[i]) > Len(prefix)
    THEN Append(prefix, "*")
    ELSE prefix

\* C10: the library name pattern of every project is the longest common
\* prefix of its member names, followed by * iff some member name is longer
\* than that prefix.
C10_PatternIsCommonPrefix ==
    \A p \in 1..Len(sample.projects) :
        getLibraryNamePattern(sample.projects[p])
            = PrefixPattern(sample.projects[p].libraries)

\* the libraries that are members of a project, and those of the sample
MemberNames(project) ==
    {project.libraries[k] : k \in 1..Len(project.libraries)}

SampleLibraryNames(s) == {s.libraries[k].name : k \in 1..Len(s.libraries)}

\* C11: after any sequence of addLibrary calls the display name of a project
\* is the sample's name when the project's members are all the libraries of
\* the sample, and the project's own name otherwise.
C11_DisplayNameCollapses ==
    \A p \in 1..Len(sample.projects) :
        getProjectName(sample, sample.projects[p]) =
            IF MemberNames(sample.projects[p]) = SampleLibraryNames(sample)
            THEN sample.name
            ELSE sample.projects[p].name

AllDigits(s) == \A k \in 1..Len(s) : s[k] \in Digits

\* C15: for every library name the prefix followed by the index string is
\* the name, the prefix ends in no digit and the index string is all digits;
\* without trailing digits the index string is empty and the index None,
\* and with a digit suffix the index is the integer value of the index
\* string.
C15_PrefixIndexRecompose ==
    (ret.call = "addLibrary")
    => LET name == ret.arg
           prefix == extract_prefix(name)
           index_as_string == extract_index(name)
       IN  /\ prefix \o index_as_string = name
           /\ prefix = <<>> \/ prefix[Len(prefix)] \notin Digits
           /\ AllDigits(index_as_string)
           /\ (name = <<>> \/ name[Len(name)] \notin Digits)
                  => /\ index_as_string = <<>>
                     /\ ret.library # <<>>
                     /\ ret.library[1].index_as_string = <<>>
                     /\ ret.library[1].index = NoIndex
           /\ (name # <<>> /\ name[Len(name)] \in Digits)
                  => /\ ret.library # <<>>
                     /\ ret.library[1].prefix = prefix
                     /\ ret.library[1].index_as_string = index_as_string
                     /\ ret.library[1].index = IntOfDigits(index_as_string)

\* C17: the library name pattern of every project matches the name of every
\* member of the project, in whatever order the members were added.
C17_PatternMatchesMembers ==
    \A p \in 1..Len(sample.projects) :
        \A k \in 1..Len(sample.projects[p].libraries) :
            match(getLibraryNamePattern(sample.projects[p]),
                  sample.projects[p].libraries[k])

\* C18: after any sequence of addLibrary calls the project names of the
\* sample are unique, and every library of the sample is a member of the
\* project named by its initials and of no other, once in its member list.
C18_OneProjectPerLibrary ==
    /\ \A p, q \in 1..Len(sample.projects) :
           sample.projects[p].name = sample.projects[q].name => p = q
    /\ \A i \in 1..Len(sample.libraries) :
           \A p \in 1..Len(sample.projects) :
               LET at == {k \in 1..Len(sample.projects[p].libraries) :
                              sample.projects[p].libraries[k]
                                  = sample.libraries[i].name}
               IN  IF sample.projects[p].name = sample.libraries[i].initials
                   THEN Cardinality(at) = 1
                   ELSE at = {}

----------------------------------------------------------------------------
(* Claims about the construction of a run *)

\* the row the constructor has just finished (its warnings printed)
RowFinished == pc \in {"row", "done"} /\ loc.i >= 1

Warned(row, kind) ==
    \E w \in 1..Len(warnings) :
        warnings[w].row = row /\ warnings[w].kind = kind

\* the library object the local variable library refers to
CurrentLibrary ==
    LET s == run.samples[loc.sample]
    IN  s.libraries[LibraryPosition(s, loc.library)]

\* C2: processing the rows of the run definition never aborts construction:
\* whatever the rows and the directory layout, no exception escapes once the
\* run definition has been read.
C2_RowsNeverAbort ==
    ~(pc = "raised" /\ run.run_definition # <<>>)

\* some line after the first header line is a data line
HasDataLine(lines) ==
    \E h, k \in 1..Len(lines) :
        /\ h < k
        /\ lines[h] # <<>> /\ lines[h][1] = "sampleName"
        /\ ~(lines[k] # <<>> /\ lines[k][1] = "sampleName")

\* C3: a constructed run is valid only if the directory exists, the name
\* was parsed into a RunInfo and the run definition file was found and
\* parsed into at least one data row; with the directory or the file
\* missing, the file unreadable or no data row the run is invalid and has
\* no samples.
C3_ValidOnlyIfComplete ==
    (pc = "done") =>
        /\ RunNonzero(run) =>
               /\ fs.isdir
               /\ run.run_info # <<>>
               /\ Len(Split(fs.run_name, "_")) >= 2
               /\ fs.defn # <<>>
               /\ fs.defn[1].readable
               /\ HasDataLine(fs.defn[1].lines)
               /\ Len(run.run_definition[1].data) >= 1
        /\ (\/ ~fs.isdir
            \/ fs.defn = <<>>
            \/ ~fs.defn[1].readable
            \/ ~HasDataLine(fs.defn[1].lines))
           => ~RunNonzero(run) /\ run.samples = <<>>

\* C3 witness: a valid run with two samples.
C3_Witness ==
    pc = "done" /\ RunNonzero(run) /\ Len(run.samples) = 2

\* the children of the current library's directory that give both files
Yielding ==
    IF loc.this_library_dir = <<>> THEN {}
    ELSE {d \in 1..Len(fs.cands) :
              /\ Qualifies(fs.cands[d])
              /\ SelectedFile(fs.cands[d], loc.sample_name, loc.library, d,
                              ".csfasta", CurrentLibrary.is_barcoded) # NoPath
              /\ SelectedFile(fs.cands[d], loc.sample_name, loc.library, d,
                              ".qual", CurrentLibrary.is_barcoded) # NoPath}

\* C4: after the discovery for a row, the library's two paths are those of
\* the first child directory that gives both files; the ambiguity warning is
\* printed exactly when more than one child gives both, the not-found
\* warning exactly when none does, and no exception escapes.
C4_FirstPairKept ==
    RowFinished =>
        LET first == CHOOSE d \in Yielding : \A e \in Yielding : d <= e IN
        /\ Yielding # {} =>
               /\ CurrentLibrary.csfasta =
                      SelectedFile(fs.cands[first], loc.sample_name,
                                   loc.library, first, ".csfasta",
                                   CurrentLibrary.is_barcoded)
               /\ CurrentLibrary.qual =
                      SelectedFile(fs.cands[first], loc.sample_name,
                                   loc.library, first, ".qual",
                                   CurrentLibrary.is_barcoded)
        /\ Warned(loc.i - 1, "ambiguous location for primary data")
               <=> Cardinality(Yielding) > 1
        /\ Warned(loc.i - 1, "unable to locate primary data")
               <=> Yielding = {}
        /\ exc = ""

\* C4 witness: the second and third of three children gave both files, the
\* pair of the second is kept and the ambiguity warning is printed.
C4_Witness ==
    /\ RowFinished
    /\ Yielding = {2, 3}
    /\ CurrentLibrary.csfasta # NoPath
    /\ CurrentLibrary.csfasta[1].d = 2
    /\ CurrentLibrary.qual[1].d = 2
    /\ Warned(loc.i - 1, "ambiguous location for primary data")

NameHasF3(f) == \E k \in 1..Len(f) : f[k] = "_F3_"

\* the child directory the last Scan step looked at
Scanned == fs.cands[loc.d - 1]

\* C5: for a barcoded library whose reads directory holds a .csfasta file
\* named with _F3_ and another one without, the _F3_ file is the sequence
\* file selected, whatever the listing order; and a selected file is
\* discarded only when its name lacks _F3_.
C5_F3FileSelected ==
    (pc = "scan" /\ loc.d >= 2 /\ Qualifies(Scanned)
         /\ CurrentLibrary.is_barcoded)
    => LET reads == Scanned.reads[1]
           cs == {k \in 1..Len(reads) : Ext(reads[k]) = ".csfasta"}
       IN  /\ ((\E k \in cs : NameHasF3(reads[k]))
                   /\ (\E k \in cs : ~NameHasF3(reads[k])))
               => /\ loc.csfasta # NoPath
                  /\ NameHasF3(loc.csfasta[1].file)
           /\ \A ext \in {".csfasta", ".qual"} :
                  LET chosen == LastWithExt(reads, ext)
                      kept == IF ext = ".csfasta" THEN loc.csfasta
                              ELSE loc.qual
                  IN  (chosen # <<>> /\ kept = NoPath)
                          => ~NameHasF3(chosen[1])

\* the barcodes field of a data row, <<>> when the header has no such
\* column or the row is too short to hold it
BarcodesField(table, i) ==
    LET pos == IndexOf(table.header_fields, <<"barcodes">>) IN
    IF pos < 0 \/ pos >= Len(table.data[i + 1]) THEN <<>>
    ELSE <<table.data[i + 1][pos + 1]>>

\* C6: the library attached for a row is barcoded iff the row has a
\* barcodes field that is not empty once its surrounding double quotes are
\* trimmed.
C6_BarcodedIffField ==
    (pc = "scan") =>
        LET field == BarcodesField(run.run_definition[1], loc.i) IN
        CurrentLibrary.is_barcoded
            <=> (field # <<>> /\ Strip(field[1], {Quote}) # <<>>)

\* the sample names of the rows 0..i of the run definition, each once, in
\* the order of the first row that has it
RECURSIVE SampleNamesUpTo(_, _)
SampleNamesUpTo(data, i) ==
    IF i < 0 THEN <<>>
    ELSE LET before == SampleNamesUpTo(data, i - 1)
             name == data[i + 1][1]
         IN  IF \E k \in 1..Len(before) : before[k] = name THEN before
             ELSE Append(before, name)

\* C14: the sample list holds each distinct sampleName once, in the order of
\* the first row that has it; a row whose sampleName was seen before adds no
\* sample and attaches its library to the sample of that name.
C14_SamplesOncePerName ==
    (pc = "scan")
    => /\ [k \in 1..Len(run.samples) |-> run.samples[k].name]
              = SampleNamesUpTo(run.run_definition[1].data, loc.i)
       /\ \E k \in 1..Len(run.samples) :
              /\ run.samples[k].name = loc.sample_name
              /\ \E l \in 1..Len(run.samples[k].libraries) :
                     run.samples[k].libraries[l].name = loc.library

\* C19: in every state of the construction and after it every library has
\* its sequence file path and its quality file path both set or both unset,
\* also when several rows name the same library.
C19_PathsSetTogether ==
    \A k \in 1..Len(run.samples) :
        \A l \in 1..Len(run.samples[k].libraries) :
            (run.samples[k].libraries[l].csfasta = NoPath)
                <=> (run.samples[k].libraries[l].qual = NoPath)

\* C19 witness: three rows named the same library, one child of its
\* directory held a sequence file only, and the library has both paths.
C19_Witness ==
    /\ pc = "done"
    /\ loc.i = 3
    /\ Len(run.samples) = 1
    /\ Len(run.samples[1].libraries) = 1
    /\ \E d \in 1..Len(fs.cands) :
           Qualifies(fs.cands[d]) /\ fs.cands[d].reads = << <<OtherCsfasta>> >>
    /\ run.samples[1].libraries[1].csfasta # NoPath
    /\ run.samples[1].libraries[1].qual # NoPath

\* C16: for every run name of two tokens and more the run info has the
\* first token as instrument, the second as datestamp, flow cell 2 if the
\* last token is 2 and 1 otherwise, and as id the instrument and datestamp
\* followed by _FRAG only if a FRAG token is present and then by _BC only if
\* a BC token is present, never by the flow cell token.
C16_RunInfoFields ==
    (pc # "init" /\ fs.isdir /\ Len(Split(fs.run_name, "_")) >= 2)
    => LET tokens == Split(fs.run_name, "_")
           has(t) == \E k \in 1..Len(tokens) : tokens[k] = <<t>>
       IN  /\ run.run_info # <<>>
           /\ run.run_info[1].instrument = tokens[1]
           /\ run.run_info[1].datestamp = tokens[2]
           /\ run.run_info[1].flow_cell =
                  IF tokens[Len(tokens)] = <<"2">> THEN 2 ELSE 1
           /\ run.run_info[1].id =
                  tokens[1] \o <<"_">> \o tokens[2]
                      \o (IF has("FRAG") THEN <<"_", "FRAG">> ELSE <<>>)
                      \o (IF has("BC") THEN <<"_", "BC">> ELSE <<>>)

\* C16 witness: solid0123_20130426_FRAG_BC_2 was parsed, giving flow cell 2
\* and the id solid0123_20130426_FRAG_BC.
C16_Witness ==
    /\ pc = "done"
    /\ fs.run_name = <<"solid0123", "_">> \o Datestamp
                         \o <<"_", "FRAG", "_", "BC", "_", "2">>
    /\ run.run_info # <<>>
    /\ run.run_info[1].flow_cell = 2
    /\ run.run_info[1].is_fragment_library
    /\ run.run_info[1].is_barcoded_sample
    /\ run.run_info[1].id = <<"solid0123", "_">> \o Datestamp
                                \o <<"_", "FRAG", "_", "BC">>

\* C8: parsing a run name with fewer than two tokens fails with
\* MalformedNameError, and a run constructed over a directory of such a
\* name ends as an invalid run, no error escaping the constructor.
C8_ShortNameInvalidRun ==
    (pc # "init" /\ fs.isdir /\ Len(Split(fs.run_name, "_")) < 2)
    => /\ SolidRunInfo(fs.run_name).exc = "MalformedNameError"
       /\ pc = "done" /\ exc = "" /\ ~RunNonzero(run)

----------------------------------------------------------------------------
(* Claims about the tables *)

\* the header of a table as a list of field names (empty while it is None)
HeaderOf(t) ==
    IF t.kind = "SolidRunDefinition" THEN t.header_fields
    ELSE IF t.header = <<>> THEN <<>> ELSE t.header[1]

\* C9: getDataItem(field, i) fails with a field-not-found error when the
\* field is not in the header and with an index-out-of-range error when i is
\* outside [0, rowCount()); in neither case does it return a value.
C9_LookupFailsLoudly ==
    (tobject # <<>> /\ tret.call = "getDataItem") =>
        LET known == IndexOf(HeaderOf(tobject[1]), tret.field) >= 0
            inside == 0 <= tret.i /\ tret.i < Len(tobject[1].data)
        IN  /\ ~known => tret.exc \notin {"", "IndexError"}
            /\ (known /\ ~inside) => tret.exc = "IndexError"

\* a line of a run definition file that begins with sampleName
IsHeaderLine(line) == line # <<>> /\ line[1] = "sampleName"

\* the fields of a line, its surrounding whitespace removed
FieldsOf(line) == Split(Strip(line, Whitespace), Tab)

\* C12: of a run definition file the lines before the first line beginning
\* with sampleName are ignored, the header fields are the tab-split of that
\* line, and every later line, one beginning with sampleName included, is
\* one data row, in file order, the header staying as it was.
C12_FirstHeaderThenRows ==
    (tobject # <<>> /\ tfile.kind = "SolidRunDefinition" /\ tfile.readable)
    => LET lines == tfile.lines
           heads == {k \in 1..Len(lines) : IsHeaderLine(lines[k])}
       IN  IF heads = {}
           THEN /\ tobject[1].header_fields = <<>>
                /\ tobject[1].data = <<>>
           ELSE LET h == CHOOSE k \in heads : \A j \in heads : k <= j IN
                /\ tobject[1].header_fields = FieldsOf(lines[h])
                /\ tobject[1].data =
                       [k \in 1..(Len(lines) - h) |-> FieldsOf(lines[h + k])]

----------------------------------------------------------------------------
(* Claims about fetchLibraries *)

AllStars(pattern) == \A k \in 1..Len(pattern) : pattern[k] = "*"

\* a name matches a pattern: an empty pattern or one made only of * matches
\* every name, a pattern ending in * every name that starts with the part of
\* the pattern before its trailing *, any other pattern the same name only
NameMatches(pattern, word) ==
    IF AllStars(pattern) THEN TRUE
    ELSE IF pattern[Len(pattern)] = "*"
         THEN StartsWith(word, RStrip(pattern, {"*"}))
         ELSE word = pattern

\* the libraries whose sample and own name match, sample by sample
RECURSIVE LibrariesMatching(_, _, _)
LibrariesMatching(samples, sample_name, library_name) ==
    IF samples = <<>> THEN <<>>
    ELSE LET s == Head(samples)
             at == {k \in 1..Len(s.libraries) :
                        /\ NameMatches(sample_name, s.name)
                        /\ NameMatches(library_name, s.libraries[k].name)}
             RECURSIVE Taken(_)
             Taken(k) == IF k > Len(s.libraries) THEN <<>>
                         ELSE (IF k \in at THEN <<s.libraries[k]>> ELSE <<>>)
                              \o Taken(k + 1)
         IN  Taken(1) \o LibrariesMatching(Tail(samples), sample_name,
                                           library_name)

\* C13: fetchLibraries returns exactly the libraries whose sample name and
\* library name match their patterns, in sample order and then library
\* order, and the empty list when none does; an empty pattern or one made
\* only of * matches every name, one ending in * the names that start with
\* its part before the *, any other the identical name.
C13_FetchReturnsMatching ==
    (fetched # <<>>)
    => fetched[1].matching_libraries =
           LibrariesMatching(run.samples, fetched[1].sample_name,
                             fetched[1].library_name)

====
